---- MODULE Spec2Model ----
(***************************************************************************)
(* Model of the Mr Bear firmware: App.run of mr_bear.py, the playback and  *)
(* power state machine, with the LED, SDCard, Audio and Button helpers it  *)
(* drives.  The audio device, the button pins and the SD card contents are *)
(* the environment.  The helper classes are also exercised on their own:   *)
(* the LED (SpecLed), the Button in time (SpecButton), SDCard.ls_files of  *)
(* the three variants (SpecLs) and AudioOut.play of main.py and objects.py *)
(* (SpecAudioOut).                                                         *)
(***************************************************************************)
EXTENDS Integers, Sequences, FiniteSets, TLC

VARIABLES
    pc,           \* position of App.run
    wake_alarm,   \* alarm.wake_alarm: NoAlarm on a cold boot, else the pin that woke
    card,         \* entries of the mounted SD card
    file,         \* the entry random.choice returned, or NoFile
    decoder,      \* Audio._decoder: NoFile (None) or the entry it has open
    playing,      \* I2SOut.playing
    led_duty,     \* PWMOut.duty_cycle of the LED
    left_held,    \* left_button.button holds its pin (DigitalInOut not deinit)
    right_held,   \* right_button.button holds its pin
    left_alarm,   \* the PinAlarm created for the left pin, or NoPinAlarm
    right_alarm,  \* the PinAlarm created for the right pin, or NoPinAlarm
    sleep_alarms, \* the alarms exit_and_deep_sleep_until_alarms was called with
    levels,       \* raw pin levels at the latest button check (TRUE = high)
    iterations,   \* poll-loop iterations entered in this run
    pulses,       \* Audio.pulse_led calls completed in this run
    play_calls,   \* I2SOut.play calls in this run
    stop_calls,   \* Audio.stop calls in this run
    err,          \* the exception that ended the run, or NoError
    trace,        \* device calls of this run, in order
    led_op,       \* LED alone: the latest operation applied ("set" or "pulse")
    led_in,       \* LED alone: the level or loudness sample it was given
    now,          \* Button alone: time, in ticks
    btn_level,    \* Button alone: raw level of the pin (TRUE = high)
    btn_pc,       \* Button alone: "idle", or "sleeping" inside Button.pressed
    btn_called,   \* Button alone: tick at which the read in progress was called
    reads,        \* Button alone: the completed reads of Button.pressed
    ao_variant,   \* AudioOut.play: the source file of the variant run
    ao_led,       \* AudioOut.play: TRUE when an LED is passed, FALSE for None
    ao_pc,        \* AudioOut.play: position
    ao_playing,   \* AudioOut.play: I2SOut.playing
    ao_value,     \* AudioOut.play: DigitalInOut.value of main.py's LED
    ao_duty,      \* AudioOut.play: PWMOut.duty_cycle of objects.py's LED
    ao_polls,     \* AudioOut.play: iterations of its poll loop
    ao_err,       \* AudioOut.play: the exception that ended it, or NoError
    ls_variant,   \* ls_files alone: the source file of the variant called
    ls_folder,    \* ls_files alone: the folder argument
    ls_ext,       \* ls_files alone: the ext argument
    ls_given,     \* ls_files alone: FALSE when ext is left to its default
    ls_pc,        \* ls_files alone: "idle" or "done"
    ls_result     \* ls_files alone: the entries returned

run_vars == <<pc, wake_alarm, card, file, decoder, playing, led_duty, left_held,
          right_held, left_alarm, right_alarm, sleep_alarms, levels,
          iterations, pulses, play_calls, stop_calls, err, trace>>

led_vars == <<led_op, led_in>>

btn_vars == <<now, btn_level, btn_pc, btn_called, reads>>

ao_vars == <<ao_variant, ao_led, ao_pc, ao_playing, ao_value, ao_duty,
             ao_polls, ao_err>>

ls_vars == <<ls_variant, ls_folder, ls_ext, ls_given, ls_pc, ls_result>>

\* the variables of the helper classes exercised on their own
part_vars == <<led_vars, btn_vars, ao_vars, ls_vars>>

vars == <<run_vars, part_vars>>

\* the variables of the run other than the LED's duty cycle
run_rest == <<pc, wake_alarm, card, file, decoder, playing, left_held,
              right_held, left_alarm, right_alarm, sleep_alarms, levels,
              iterations, pulses, play_calls, stop_calls, err, trace>>

----------------------------------------------------------------------------
(* Bounds of the model *)

\* poll-loop iterations explored per run
MaxPolls == 3

\* largest raw loudness sample the decoder reports in the model
MaxLoudness == 130

\* how far below 0 and above 255 the levels given to the LED alone range
LevelSlack == 40

\* ticks of time explored for the Button alone
MaxTime == 6

\* reads of Button.pressed explored for the Button alone
MaxReads == 3

----------------------------------------------------------------------------
(* Values *)

\* Button.debounce, 0.2 s, in ticks of 0.1 s
Debounce == 2

NoAlarm == "none"
\* no entry (None)
NoFile == [parent |-> "", name |-> <<>>, is_file |-> FALSE]

\* no PinAlarm object
NoPinAlarm == [pin |-> "none", value |-> FALSE, pull |-> FALSE]
NoError == "none"

\* board.RX is the left button's pin, board.TX the right one's
LeftPin == "RX"
RightPin == "TX"

\* the directory each button's tracks live in
ZoneDir(pin) == IF pin = LeftPin THEN "left" ELSE "right"

Max(a, b) == IF a >= b THEN a ELSE b
Min(a, b) == IF a <= b THEN a ELSE b

\* file names, as sequences of characters
Mp3Ext == <<".", "m", "p", "3">>
NameA == <<"a">> \o Mp3Ext
NameB == <<"b">> \o Mp3Ext
NameTxt == <<"n", ".", "t", "x", "t">>
NameUpper == <<"u", ".", "M", "P", "3">>
NameDir == <<"d">> \o Mp3Ext
NameHidden == Mp3Ext
NameL == <<"l">> \o Mp3Ext
NameR == <<"r">> \o Mp3Ext

Entry(parent, name, is_file) ==
    [parent |-> parent, name |-> name, is_file |-> is_file]

\* the two zone directories are always on the card
FixedEntries ==
    { Entry("", <<"l", "e", "f", "t">>, FALSE),
      Entry("", <<"r", "i", "g", "h", "t">>, FALSE) }

OptionalEntries ==
    { Entry("", NameA, TRUE), Entry("", NameB, TRUE), Entry("", NameTxt, TRUE),
      Entry("", NameUpper, TRUE), Entry("", NameDir, FALSE),
      Entry("", NameHidden, TRUE),
      Entry("left", NameL, TRUE), Entry("right", NameR, TRUE) }

\* card contents explored: the fixed directories plus up to three other entries
Cards ==
    { FixedEntries \cup s : s \in { t \in SUBSET OptionalEntries : Cardinality(t) <= 3 } }

\* raw loudness samples (decoder.rms_level)
LoudnessSamples == {-3, 0, 5, MaxLoudness}

----------------------------------------------------------------------------
(* LED *)

\* LED._convert_brightness: int(value * (65535 / 255)), and 65535 / 255 = 257.0
convert_brightness(value) == value * 257

\* variant: the level is not clamped
brightness_setter_unclamped(level) == convert_brightness(level)

\* the duty cycle the LED.brightness setter stores for level
brightness_setter(level) == convert_brightness(Max(0, Min(level, 255)))

\* the LED.brightness getter: int(duty_cycle / (65535 / 255))
brightness == led_duty \div 257

----------------------------------------------------------------------------
(* SDCard *)

\* Path.suffix: the last dot of the name and what follows it, unless the dot
\* is the first or the last character
Suffix(name) ==
    LET dots == { i \in 1..Len(name) : name[i] = "." }
    IN  IF dots = {} THEN <<>>
        ELSE LET i == CHOOSE d \in dots : \A e \in dots : e <= d
             IN  IF i > 1 /\ i < Len(name) THEN SubSeq(name, i, Len(name)) ELSE <<>>

\* SDCard.ls: the entries directly under mount_point / folder
ls(folder) == { e \in card : e.parent = folder }

\* variant: the is_file test is missing
ls_files_any(folder, ext) == { f \in ls(folder) : Suffix(f.name) = ext }

\* SDCard.ls_files with an extension given
ls_files(folder, ext) == { f \in ls(folder) : f.is_file /\ Suffix(f.name) = ext }

----------------------------------------------------------------------------
(* Button *)

\* Button.pressed: the pin is pulled up, so a low level is a press
Button_pressed(value) == ~value

----------------------------------------------------------------------------
(* The run *)

Crash(e) ==
    /\ pc' = "crashed"
    /\ err' = e

RunInit ==
    /\ pc = "run"
    /\ wake_alarm \in {NoAlarm, LeftPin, RightPin}
    /\ card \in Cards
    /\ file = NoFile
    /\ decoder = NoFile
    /\ playing = FALSE
    /\ led_duty = 0
    /\ left_held = FALSE
    /\ right_held = FALSE
    /\ left_alarm = NoPinAlarm
    /\ right_alarm = NoPinAlarm
    /\ sleep_alarms = {}
    /\ levels = [left |-> TRUE, right |-> TRUE]
    /\ iterations = 0
    /\ pulses = 0
    /\ play_calls = 0
    /\ stop_calls = 0
    /\ err = NoError
    /\ trace = <<>>

\* LED alone, before any operation
LedIdle ==
    /\ led_op = "none"
    /\ led_in = 0

\* Button alone, before any read
BtnIdle ==
    /\ now = 0
    /\ btn_level = TRUE
    /\ btn_pc = "idle"
    /\ btn_called = 0
    /\ reads = <<>>

\* AudioOut.play not called
AoIdle ==
    /\ ao_variant = "main"
    /\ ao_led = FALSE
    /\ ao_pc = "idle"
    /\ ao_playing = FALSE
    /\ ao_value = FALSE
    /\ ao_duty = 0
    /\ ao_polls = 0
    /\ ao_err = NoError

\* ls_files not called
LsIdle ==
    /\ ls_variant = "mr_bear"
    /\ ls_folder = ""
    /\ ls_ext = <<>>
    /\ ls_given = FALSE
    /\ ls_pc = "idle"
    /\ ls_result = {}

\* App() constructed, run about to be called
Init ==
    /\ RunInit
    /\ LedIdle
    /\ BtnIdle
    /\ AoIdle
    /\ LsIdle

\* left_button = Button(board.RX); right_button = Button(board.TX)
MakeButtons ==
    /\ pc = "run"
    /\ left_held' = TRUE
    /\ right_held' = TRUE
    /\ pc' = "wake_check"
    /\ UNCHANGED <<wake_alarm, card, file, decoder, playing, led_duty,
                   left_alarm, right_alarm, sleep_alarms, levels, iterations,
                   pulses, play_calls, stop_calls, err, trace>>
    /\ UNCHANGED part_vars

\* variant: a track is selected whether or not an alarm woke the device
SelectTrackAlways ==
    /\ pc = "wake_check"
    /\ IF ls_files("", Mp3Ext) = {}
       THEN /\ Crash("IndexError")
            /\ UNCHANGED file
       ELSE /\ \E f \in ls_files("", Mp3Ext) : file' = f
            /\ pc' = "play"
            /\ UNCHANGED err
    /\ UNCHANGED <<wake_alarm, card, decoder, playing, led_duty, left_held,
                   right_held, left_alarm, right_alarm, sleep_alarms, levels,
                   iterations, pulses, play_calls, stop_calls, trace>>
    /\ UNCHANGED part_vars

\* if alarm.wake_alarm: file = random.choice(self.sdcard.ls_files("", ".mp3"))
SelectTrack ==
    /\ pc = "wake_check"
    /\ IF wake_alarm = NoAlarm
       THEN /\ pc' = "loop"
            /\ UNCHANGED <<file, err>>
       ELSE IF ls_files("", Mp3Ext) = {}
            THEN /\ Crash("IndexError")
                 /\ UNCHANGED file
            ELSE /\ \E f \in ls_files("", Mp3Ext) : file' = f
                 /\ pc' = "play"
                 /\ UNCHANGED err
    /\ UNCHANGED <<wake_alarm, card, decoder, playing, led_duty, left_held,
                   right_held, left_alarm, right_alarm, sleep_alarms, levels,
                   iterations, pulses, play_calls, stop_calls, trace>>
    /\ UNCHANGED part_vars

\* self.audio.play(file): the decoder opens the file, or raises
AudioPlay ==
    /\ pc = "play"
    /\ \/ /\ Crash("OSError")
          /\ UNCHANGED <<decoder, playing, play_calls, trace>>
       \/ /\ decoder' = file
          /\ playing' = TRUE
          /\ play_calls' = play_calls + 1
          /\ trace' = Append(trace, "play")
          /\ pc' = "loop"
          /\ UNCHANGED err
    /\ UNCHANGED <<wake_alarm, card, file, led_duty, left_held, right_held,
                   left_alarm, right_alarm, sleep_alarms, levels, iterations,
                   pulses, stop_calls>>
    /\ UNCHANGED part_vars

\* while self.audio.playing: ... else: ...
LoopCheck ==
    /\ pc = "loop"
    /\ IF playing
       THEN /\ iterations < MaxPolls
            /\ iterations' = iterations + 1
            /\ pc' = "buttons"
       ELSE /\ pc' = "led_off"
            /\ UNCHANGED iterations
    /\ UNCHANGED <<wake_alarm, card, file, decoder, playing, led_duty,
                   left_held, right_held, left_alarm, right_alarm,
                   sleep_alarms, levels, pulses, play_calls, stop_calls, err,
                   trace>>
    /\ UNCHANGED part_vars

\* Audio.stop: the device is told to stop; its playing flag drops now or later
AudioStop ==
    /\ stop_calls' = stop_calls + 1
    /\ trace' = Append(trace, "stop")
    /\ playing' \in {FALSE, playing}

\* variant: a press stops the track and starts another one
PollButtonsRestart ==
    /\ pc = "buttons"
    /\ \E lv, rv \in BOOLEAN :
          /\ levels' = [left |-> lv, right |-> rv]
          /\ IF Button_pressed(lv) \/ Button_pressed(rv)
             THEN /\ stop_calls' = stop_calls + 1
                  /\ trace' = trace \o <<"stop", "play">>
                  /\ playing' = TRUE
                  /\ play_calls' = play_calls + 1
             ELSE UNCHANGED <<stop_calls, trace, playing, play_calls>>
    /\ pc' = "recheck"
    /\ UNCHANGED <<wake_alarm, card, file, decoder, led_duty, left_held,
                   right_held, left_alarm, right_alarm, sleep_alarms,
                   iterations, pulses, err>>
    /\ UNCHANGED part_vars

\* variant: only the left button is checked
PollButtonsLeftOnly ==
    /\ pc = "buttons"
    /\ \E lv, rv \in BOOLEAN :
          /\ levels' = [left |-> lv, right |-> rv]
          /\ IF Button_pressed(lv)
             THEN AudioStop
             ELSE UNCHANGED <<stop_calls, trace, playing>>
    /\ pc' = "recheck"
    /\ UNCHANGED <<wake_alarm, card, file, decoder, led_duty, left_held,
                   right_held, left_alarm, right_alarm, sleep_alarms,
                   iterations, pulses, play_calls, err>>
    /\ UNCHANGED part_vars

\* if left_button.pressed or right_button.pressed: self.audio.stop()
PollButtons ==
    /\ pc = "buttons"
    /\ \E lv, rv \in BOOLEAN :
          /\ levels' = [left |-> lv, right |-> rv]
          /\ IF Button_pressed(lv) \/ Button_pressed(rv)
             THEN AudioStop
             ELSE UNCHANGED <<stop_calls, trace, playing>>
    /\ pc' = "recheck"
    /\ UNCHANGED <<wake_alarm, card, file, decoder, led_duty, left_held,
                   right_held, left_alarm, right_alarm, sleep_alarms,
                   iterations, pulses, play_calls, err>>
    /\ UNCHANGED part_vars

\* Audio.pulse_led: level = self._decoder.rms_level * 2
pulse_led_level(rms_level) == rms_level * 2

\* Audio.pulse_led: led.brightness = level
pulse_led(rms_level) ==
    /\ led_duty' = brightness_setter(pulse_led_level(rms_level))
    /\ pulses' = pulses + 1
    /\ trace' = Append(trace, "pulse")

\* variant: the re-check is inverted (if not self.audio.playing)
RecheckInverted ==
    /\ pc = "recheck"
    /\ IF ~playing
       THEN /\ \E l \in LoudnessSamples : pulse_led(l)
            /\ pc' = "sleep"
            /\ UNCHANGED err
       ELSE /\ pc' = "sleep"
            /\ UNCHANGED <<led_duty, pulses, trace, err>>
    /\ UNCHANGED <<wake_alarm, card, file, decoder, playing, left_held,
                   right_held, left_alarm, right_alarm, sleep_alarms, levels,
                   iterations, play_calls, stop_calls>>
    /\ UNCHANGED part_vars

\* if self.audio.playing: self.audio.pulse_led(self.led)
Recheck ==
    /\ pc = "recheck"
    /\ IF playing
       THEN \/ /\ Crash("LoudnessError")
               /\ UNCHANGED <<led_duty, pulses, trace>>
            \/ /\ \E l \in LoudnessSamples : pulse_led(l)
               /\ pc' = "sleep"
               /\ UNCHANGED err
       ELSE /\ pc' = "sleep"
            /\ UNCHANGED <<led_duty, pulses, trace, err>>
    /\ UNCHANGED <<wake_alarm, card, file, decoder, playing, left_held,
                   right_held, left_alarm, right_alarm, sleep_alarms, levels,
                   iterations, play_calls, stop_calls>>
    /\ UNCHANGED part_vars

\* time.sleep(0.1)
PollSleep ==
    /\ pc = "sleep"
    /\ pc' = "loop"
    /\ UNCHANGED <<wake_alarm, card, file, decoder, playing, led_duty,
                   left_held, right_held, left_alarm, right_alarm,
                   sleep_alarms, levels, iterations, pulses, play_calls,
                   stop_calls, err, trace>>
    /\ UNCHANGED part_vars

\* the audio device reaches the end of the track, or completes a stop
AudioFinish ==
    /\ playing
    /\ pc # "crashed"
    /\ playing' = FALSE
    /\ UNCHANGED <<pc, wake_alarm, card, file, decoder, led_duty, left_held,
                   right_held, left_alarm, right_alarm, sleep_alarms, levels,
                   iterations, pulses, play_calls, stop_calls, err, trace>>
    /\ UNCHANGED part_vars

\* variant: the loop's else branch does not turn the LED off
LedOffSkipped ==
    /\ pc = "led_off"
    /\ trace' = Append(trace, "led_off")
    /\ pc' = "deinit_left"
    /\ UNCHANGED <<wake_alarm, card, file, decoder, playing, led_duty,
                   left_held, right_held, left_alarm, right_alarm,
                   sleep_alarms, levels, iterations, pulses, play_calls,
                   stop_calls, err>>
    /\ UNCHANGED part_vars

\* self.led.off()
LedOff ==
    /\ pc = "led_off"
    /\ led_duty' = brightness_setter(0)
    /\ trace' = Append(trace, "led_off")
    /\ pc' = "deinit_left"
    /\ UNCHANGED <<wake_alarm, card, file, decoder, playing, left_held,
                   right_held, left_alarm, right_alarm, sleep_alarms, levels,
                   iterations, pulses, play_calls, stop_calls, err>>
    /\ UNCHANGED part_vars

\* left_button.button.deinit()
DeinitLeft ==
    /\ pc = "deinit_left"
    /\ left_held' = FALSE
    /\ trace' = Append(trace, "deinit_left")
    /\ pc' = "deinit_right"
    /\ UNCHANGED <<wake_alarm, card, file, decoder, playing, led_duty,
                   right_held, left_alarm, right_alarm, sleep_alarms, levels,
                   iterations, pulses, play_calls, stop_calls, err>>
    /\ UNCHANGED part_vars

\* variant: the left button is deinitialized twice, the right one never
DeinitLeftAgain ==
    /\ pc = "deinit_right"
    /\ left_held' = FALSE
    /\ trace' = Append(trace, "deinit_right")
    /\ pc' = "alarm_left"
    /\ UNCHANGED <<wake_alarm, card, file, decoder, playing, led_duty,
                   right_held, left_alarm, right_alarm, sleep_alarms, levels,
                   iterations, pulses, play_calls, stop_calls, err>>
    /\ UNCHANGED part_vars

\* right_button.button.deinit()
DeinitRight ==
    /\ pc = "deinit_right"
    /\ right_held' = FALSE
    /\ trace' = Append(trace, "deinit_right")
    /\ pc' = "alarm_left"
    /\ UNCHANGED <<wake_alarm, card, file, decoder, playing, led_duty,
                   left_held, left_alarm, right_alarm, sleep_alarms, levels,
                   iterations, pulses, play_calls, stop_calls, err>>
    /\ UNCHANGED part_vars

PinAlarm(pin, value, pull) == [pin |-> pin, value |-> value, pull |-> pull]

\* left_alarm = alarm.pin.PinAlarm(pin=board.RX, value=False, pull=True)
MakeLeftAlarm ==
    /\ pc = "alarm_left"
    /\ left_alarm' = PinAlarm(LeftPin, FALSE, TRUE)
    /\ trace' = Append(trace, "alarm_left")
    /\ pc' = "alarm_right"
    /\ UNCHANGED <<wake_alarm, card, file, decoder, playing, led_duty,
                   left_held, right_held, right_alarm, sleep_alarms, levels,
                   iterations, pulses, play_calls, stop_calls, err>>
    /\ UNCHANGED part_vars

\* right_alarm = alarm.pin.PinAlarm(pin=board.TX, value=False, pull=True)
MakeRightAlarm ==
    /\ pc = "alarm_right"
    /\ right_alarm' = PinAlarm(RightPin, FALSE, TRUE)
    /\ trace' = Append(trace, "alarm_right")
    /\ pc' = "deep_sleep"
    /\ UNCHANGED <<wake_alarm, card, file, decoder, playing, led_duty,
                   left_held, right_held, left_alarm, sleep_alarms, levels,
                   iterations, pulses, play_calls, stop_calls, err>>
    /\ UNCHANGED part_vars

\* alarm.exit_and_deep_sleep_until_alarms(left_alarm, right_alarm)
DeepSleep ==
    /\ pc = "deep_sleep"
    /\ sleep_alarms' = {left_alarm, right_alarm}
    /\ trace' = Append(trace, "deep_sleep")
    /\ pc' = "asleep"
    /\ UNCHANGED <<wake_alarm, card, file, decoder, playing, led_duty,
                   left_held, right_held, left_alarm, right_alarm, levels,
                   iterations, pulses, play_calls, stop_calls, err>>
    /\ UNCHANGED part_vars

\* a pin alarm fires: the program restarts from the top, App() is built anew
WakeUp ==
    /\ pc = "asleep"
    /\ \E a \in sleep_alarms : wake_alarm' = a.pin
    /\ pc' = "run"
    /\ file' = NoFile
    /\ decoder' = NoFile
    /\ playing' = FALSE
    /\ led_duty' = 0
    /\ left_held' = FALSE
    /\ right_held' = FALSE
    /\ left_alarm' = NoPinAlarm
    /\ right_alarm' = NoPinAlarm
    /\ sleep_alarms' = {}
    /\ levels' = [left |-> TRUE, right |-> TRUE]
    /\ iterations' = 0
    /\ pulses' = 0
    /\ play_calls' = 0
    /\ stop_calls' = 0
    /\ err' = NoError
    /\ trace' = <<>>
    /\ UNCHANGED card
    /\ UNCHANGED part_vars

Next ==
    \/ MakeButtons
    \/ SelectTrack
    \/ AudioPlay
    \/ LoopCheck
    \/ PollButtons
    \/ Recheck
    \/ PollSleep
    \/ AudioFinish
    \/ LedOff
    \/ DeinitLeft
    \/ DeinitRight
    \/ MakeLeftAlarm
    \/ MakeRightAlarm
    \/ DeepSleep
    \/ WakeUp

Spec == Init /\ [][Next]_vars

\* a step of the program itself: run is straight-line, single-threaded code,
\* so the statement it stands at is always executed
RunStep ==
    \/ MakeButtons
    \/ SelectTrack
    \/ AudioPlay
    \/ LoopCheck
    \/ PollButtons
    \/ Recheck
    \/ PollSleep
    \/ LedOff
    \/ DeinitLeft
    \/ DeinitRight
    \/ MakeLeftAlarm
    \/ MakeRightAlarm
    \/ DeepSleep

\* the program keeps running, and the audio device eventually reports not
\* playing (the track ends, or a stop completes)
FairSpec == Spec /\ WF_vars(RunStep) /\ WF_vars(AudioFinish)

----------------------------------------------------------------------------
(* The LED alone: the brightness setter and Audio.pulse_led on any integer *)

\* the run is not started while a helper class is exercised on its own
RunIdle ==
    /\ RunInit
    /\ wake_alarm = NoAlarm
    /\ card = FixedEntries

LedLevels == (0 - LevelSlack)..(255 + LevelSlack)

InitLed ==
    /\ RunIdle
    /\ LedIdle
    /\ BtnIdle
    /\ AoIdle
    /\ LsIdle

\* led.brightness = level
LedSet ==
    /\ \E level \in LedLevels :
          /\ led_duty' = brightness_setter(level)
          /\ led_in' = level
    /\ led_op' = "set"
    /\ UNCHANGED <<run_rest, btn_vars, ao_vars, ls_vars>>

\* audio.pulse_led(led) with the decoder reporting rms_level
LedPulse ==
    /\ \E rms_level \in LedLevels :
          /\ led_duty' = brightness_setter(pulse_led_level(rms_level))
          /\ led_in' = rms_level
    /\ led_op' = "pulse"
    /\ UNCHANGED <<run_rest, btn_vars, ao_vars, ls_vars>>

NextLed ==
    \/ LedSet
    \/ LedPulse

SpecLed == InitLed /\ [][NextLed]_vars

----------------------------------------------------------------------------
(* The Button alone: reads of Button.pressed in time *)

InitButton ==
    /\ RunIdle
    /\ LedIdle
    /\ BtnIdle
    /\ AoIdle
    /\ LsIdle

\* a completed read of Button.pressed
Read(called, returned, result) ==
    [called |-> called, returned |-> returned, result |-> result]

\* time passes
BtnTick ==
    /\ now < MaxTime
    /\ now' = now + 1
    /\ UNCHANGED <<btn_level, btn_pc, btn_called, reads>>
    /\ UNCHANGED <<run_vars, led_vars, ao_vars, ls_vars>>

\* the button is pressed or released, or its contact bounces
BtnLevel ==
    /\ btn_level' = ~btn_level
    /\ UNCHANGED <<now, btn_pc, btn_called, reads>>
    /\ UNCHANGED <<run_vars, led_vars, ao_vars, ls_vars>>

\* variant: a low pin returns True at once, without the sleep
BtnReadCallNoSleep ==
    /\ btn_pc = "idle"
    /\ Len(reads) < MaxReads
    /\ reads' = Append(reads, Read(now, now, Button_pressed(btn_level)))
    /\ UNCHANGED <<now, btn_level, btn_pc, btn_called>>
    /\ UNCHANGED <<run_vars, led_vars, ao_vars, ls_vars>>

\* Button.pressed is called: if not self.button.value: time.sleep(...)
\* else: return False
BtnReadCall ==
    /\ btn_pc = "idle"
    /\ Len(reads) < MaxReads
    /\ IF Button_pressed(btn_level)
       THEN /\ btn_pc' = "sleeping"
            /\ btn_called' = now
            /\ UNCHANGED reads
       ELSE /\ reads' = Append(reads, Read(now, now, FALSE))
            /\ UNCHANGED <<btn_pc, btn_called>>
    /\ UNCHANGED <<now, btn_level>>
    /\ UNCHANGED <<run_vars, led_vars, ao_vars, ls_vars>>

\* time.sleep(self.debounce) is over: return True
BtnReadReturn ==
    /\ btn_pc = "sleeping"
    /\ now >= btn_called + Debounce
    /\ reads' = Append(reads, Read(btn_called, now, TRUE))
    /\ btn_pc' = "idle"
    /\ UNCHANGED <<now, btn_level, btn_called>>
    /\ UNCHANGED <<run_vars, led_vars, ao_vars, ls_vars>>

NextButton ==
    \/ BtnTick
    \/ BtnLevel
    \/ BtnReadCall
    \/ BtnReadReturn

SpecButton == InitButton /\ [][NextButton]_vars

----------------------------------------------------------------------------
(* AudioOut.play(file, led) of main.py and objects.py *)

InitAudioOut ==
    /\ RunIdle
    /\ LedIdle
    /\ BtnIdle
    /\ AoIdle
    /\ LsIdle

\* the LED passed to play is off: main.py's is a digital output,
\* objects.py's a PWM output
AoLedIsOff == ao_value = FALSE /\ ao_duty = 0

\* play is called: the decoder is opened and started, then
\* main.py: if led: led.brightness = 0; led.on()   (the setter is a stub)
\* objects.py: if led: led.off()
AoCall ==
    /\ ao_pc = "idle"
    /\ \E v \in {"main", "objects"}, l \in BOOLEAN :
          /\ ao_variant' = v
          /\ ao_led' = l
          /\ ao_value' = IF l /\ v = "main" THEN TRUE ELSE ao_value
          /\ ao_duty' = IF l /\ v = "objects" THEN brightness_setter(0) ELSE ao_duty
    /\ ao_playing' = TRUE
    /\ ao_pc' = "loop"
    /\ UNCHANGED <<ao_polls, ao_err>>
    /\ UNCHANGED <<run_vars, led_vars, btn_vars, ls_vars>>

\* while self.audio.playing:
AoLoopCheck ==
    /\ ao_pc = "loop"
    /\ IF ao_playing
       THEN /\ ao_polls < MaxPolls
            /\ ao_polls' = ao_polls + 1
            /\ ao_pc' = "body"
       ELSE /\ ao_pc' = "end"
            /\ UNCHANGED ao_polls
    /\ UNCHANGED <<ao_variant, ao_led, ao_playing, ao_value, ao_duty, ao_err>>
    /\ UNCHANGED <<run_vars, led_vars, btn_vars, ls_vars>>

\* if led: level = wave.rms_level (* 3 in objects.py); led.brightness = level
\* then time.sleep(0.1); main.py's brightness setter is a stub
AoBody ==
    /\ ao_pc = "body"
    /\ IF ao_led /\ ao_variant = "objects"
       THEN \E rms_level \in LoudnessSamples :
               ao_duty' = brightness_setter(rms_level * 3)
       ELSE UNCHANGED ao_duty
    /\ ao_pc' = "loop"
    /\ UNCHANGED <<ao_variant, ao_led, ao_playing, ao_value, ao_polls, ao_err>>
    /\ UNCHANGED <<run_vars, led_vars, btn_vars, ls_vars>>

\* the audio device reaches the end of the file
AoFinish ==
    /\ ao_playing
    /\ ao_playing' = FALSE
    /\ UNCHANGED <<ao_variant, ao_led, ao_pc, ao_value, ao_duty, ao_polls, ao_err>>
    /\ UNCHANGED <<run_vars, led_vars, btn_vars, ls_vars>>

\* led.off() after the loop, called whether or not an LED was passed:
\* None has no attribute off
AoEnd ==
    /\ ao_pc = "end"
    /\ IF ao_led
       THEN /\ ao_value' = FALSE
            /\ ao_duty' = brightness_setter(0)
            /\ ao_pc' = "returned"
            /\ UNCHANGED ao_err
       ELSE /\ ao_err' = "AttributeError"
            /\ ao_pc' = "raised"
            /\ UNCHANGED <<ao_value, ao_duty>>
    /\ UNCHANGED <<ao_variant, ao_led, ao_playing, ao_polls>>
    /\ UNCHANGED <<run_vars, led_vars, btn_vars, ls_vars>>

NextAudioOut ==
    \/ AoCall
    \/ AoLoopCheck
    \/ AoBody
    \/ AoFinish
    \/ AoEnd

SpecAudioOut == InitAudioOut /\ [][NextAudioOut]_vars

----------------------------------------------------------------------------
(* SDCard.ls_files of main.py, objects.py and mr_bear.py *)

\* main.py: FOLDER = 0x4000, FILE = 0x8000
FOLDER == 16384
FILE == 32768

TxtExt == <<".", "t", "x", "t">>

\* a & b on natural numbers
RECURSIVE BitAnd(_, _)
BitAnd(a, b) ==
    IF a = 0 \/ b = 0 THEN 0
    ELSE (a % 2) * (b % 2) + 2 * BitAnd(a \div 2, b \div 2)

\* a bool used as an int
BoolInt(b) == IF b THEN 1 ELSE 0

\* str.endswith
EndsWith(str, ext) ==
    /\ Len(ext) <= Len(str)
    /\ SubSeq(str, Len(str) - Len(ext) + 1, Len(str)) = ext

\* the folder argument that names a directory of the card in main.py
FolderArg(parent) ==
    IF parent = "" THEN <<"/">>
    ELSE IF parent = "left" THEN <<"/", "l", "e", "f", "t">>
    ELSE <<"/", "r", "i", "g", "h", "t">>

\* main.py ls: path = self.mount_point + folder; f = f"{path}/{i}"
MainPath(e) == <<"/", "s", "d">> \o FolderArg(e.parent) \o <<"/">> \o e.name

\* main.py ls: FILE if os.stat(f)[0] == FILE else FOLDER
MainType(e) == IF (IF e.is_file THEN FILE ELSE FOLDER) = FILE THEN FILE ELSE FOLDER

\* main.py and objects.py ls_files:
\* [f for f in self.ls(folder) if f.type == FILE & f.path.endswith(ext)]
\* where & binds tighter than ==
ls_files_main(folder, ext) ==
    { f \in ls(folder) :
        MainType(f) = BitAnd(FILE, BoolInt(EndsWith(MainPath(f), ext))) }

\* mr_bear.py ls_files: ext None lists every file
ls_files_mr_bear(folder, ext, given) ==
    IF ~given THEN { f \in ls(folder) : f.is_file } ELSE ls_files(folder, ext)

InitLs ==
    /\ RunInit
    /\ wake_alarm = NoAlarm
    /\ LedIdle
    /\ BtnIdle
    /\ AoIdle
    /\ LsIdle

\* sdcard.ls_files(folder) or sdcard.ls_files(folder, ext) is called
LsCall ==
    /\ ls_pc = "idle"
    /\ \E v \in {"main", "objects", "mr_bear"}, folder \in {"", "left", "right"},
          given \in BOOLEAN :
          \E ext \in IF given THEN {<<>>, Mp3Ext, TxtExt} ELSE {<<>>} :
             /\ ls_variant' = v
             /\ ls_folder' = folder
             /\ ls_given' = given
             /\ ls_ext' = ext
             /\ ls_result' = IF v = "mr_bear"
                              THEN ls_files_mr_bear(folder, ext, given)
                              ELSE ls_files_main(folder, ext)
    /\ ls_pc' = "done"
    /\ UNCHANGED <<run_vars, led_vars, btn_vars, ao_vars>>

NextLs == LsCall

SpecLs == InitLs /\ [][NextLs]_vars

----------------------------------------------------------------------------
(* Type invariant *)

TypeOK ==
    /\ pc \in {"run", "wake_check", "play", "loop", "buttons", "recheck",
               "sleep", "led_off", "deinit_left", "deinit_right",
               "alarm_left", "alarm_right", "deep_sleep", "asleep", "crashed"}
    /\ wake_alarm \in {NoAlarm, LeftPin, RightPin}
    /\ card \in Cards
    /\ file \in card \cup {NoFile}
    /\ decoder \in card \cup {NoFile}
    /\ playing \in BOOLEAN
    /\ led_duty \in 0..65535
    /\ iterations \in 0..MaxPolls
    /\ pulses \in 0..MaxPolls
    /\ play_calls \in 0..1
    /\ err \in {NoError, "IndexError", "OSError", "LoudnessError"}
    /\ led_op \in {"none", "set", "pulse"}
    /\ now \in 0..MaxTime
    /\ btn_level \in BOOLEAN
    /\ btn_pc \in {"idle", "sleeping"}
    /\ Len(reads) <= MaxReads
    /\ ao_variant \in {"main", "objects"}
    /\ ao_pc \in {"idle", "loop", "body", "end", "returned", "raised"}
    /\ ao_duty \in 0..65535
    /\ ao_polls \in 0..MaxPolls
    /\ ao_err \in {NoError, "AttributeError"}
    /\ ls_variant \in {"main", "objects", "mr_bear"}
    /\ ls_pc \in {"idle", "done"}
    /\ ls_result \subseteq card

----------------------------------------------------------------------------
(* Helpers of the properties *)

\* the device calls of the loop's else branch, in the order of the code
EndedSteps ==
    <<"led_off", "deinit_left", "deinit_right", "alarm_left", "alarm_right",
      "deep_sleep">>

\* n times the event ev
Repeat(ev, n) == [i \in 1..n |-> ev]

\* positions of the run after self.led.off() has returned
AfterLedOff ==
    {"deinit_left", "deinit_right", "alarm_left", "alarm_right", "deep_sleep",
     "asleep"}

\* the name ends with ".mp3" and has a stem before it
EndsWithMp3(name) ==
    /\ Len(name) > Len(Mp3Ext)
    /\ SubSeq(name, Len(name) - Len(Mp3Ext) + 1, Len(name)) = Mp3Ext

----------------------------------------------------------------------------
(* C1..C10 *)

\* C1: whenever a playback attempt was made and has ended (the run went to
\* deep sleep, or Audio.play or the loudness read raised), the LED brightness
\* is exactly 0.
C1_LedOffWhenAttemptEnded ==
    (file # NoFile /\ pc \in {"asleep", "crashed"}) => brightness = 0

\* C2: once Audio.stop() has been called, Audio.pulse_led is never called
\* again in that run: no "pulse" follows a "stop", whatever the playing flag
\* does after the stop.
C2_NoPulseAfterStop ==
    \A i, j \in DOMAIN trace :
        (trace[i] = "stop" /\ i < j) => trace[j] # "pulse"

\* C3: at most one track is bound to the audio device: every step that calls
\* Audio.play is taken while the device is not playing, is the first play of
\* the run and follows no stop, so a press during playback never starts
\* another track.
C3_AtMostOneTrack ==
    [][play_calls' > play_calls =>
          /\ ~playing
          /\ play_calls = 0
          /\ stop_calls = 0
          /\ play_calls' = 1]_vars

\* C3 witness: a run that played a track, saw a button press, and went to sleep
C3_Witness ==
    /\ pc = "asleep"
    /\ play_calls = 1
    /\ stop_calls >= 1

\* C4: the selected track is a file of the directory of the zone whose button
\* woke the device.
C4_TrackFromWakeZone ==
    file # NoFile => file.parent = ZoneDir(wake_alarm)

\* C5: the track App.run selects is an entry of the listed folder that is a
\* regular file and whose name ends in the suffix ".mp3"; directories and
\* files with another extension are never selected.
C5_SelectedInFilteredSet ==
    file # NoFile =>
        /\ file \in card
        /\ file.parent = ""
        /\ file.is_file
        /\ EndsWithMp3(file.name)

\* C5 witness: a track was selected from a folder that holds two matching
\* files, a directory named like one, and a hidden file named ".mp3"
C5_Witness ==
    /\ file # NoFile
    /\ Cardinality(ls_files("", Mp3Ext)) = 2
    /\ Entry("", NameDir, FALSE) \in card
    /\ pc = "play"

\* C6: woken by a button with an empty filtered listing, the run does not
\* call Audio.play and does not terminate with an error.
C6_EmptySelectionRecovered ==
    (wake_alarm # NoAlarm /\ ls_files("", Mp3Ext) = {}) =>
        (play_calls = 0 /\ pc # "crashed")

\* C7: when Audio.play raises, no loudness sample and no stop happen and the
\* run is not terminated by the failure.
C7_PlayFailureReachesEnded ==
    err = "OSError" => (pulses = 0 /\ stop_calls = 0 /\ pc # "crashed")

C9_DeepSleepAfterEndedSteps ==
    pc = "asleep" =>
        /\ ~playing
        /\ brightness = 0
        /\ ~left_held
        /\ ~right_held
        /\ sleep_alarms = { PinAlarm(LeftPin, FALSE, TRUE),
                            PinAlarm(RightPin, FALSE, TRUE) }
        /\ Len(trace) >= Len(EndedSteps)
        /\ SubSeq(trace, Len(trace) - Len(EndedSteps) + 1, Len(trace))
              = EndedSteps

\* C9 witness: asleep after a playback that pulsed the LED
C9_Witness ==
    /\ pc = "asleep"
    /\ pulses >= 1
    /\ Cardinality(sleep_alarms) = 2

\* C10 as stated: the LED brightness is 0 whenever the audio device is not
\* playing.
C10_LedZeroWhenNoTrackActive ==
    ~playing => brightness = 0

\* C10 as amended: the LED brightness is 0 until a track has been started
\* and again from the led.off() of the loop's else branch onwards.
C10_LedZeroOutsidePlayback ==
    /\ play_calls = 0 => brightness = 0
    /\ pc \in AfterLedOff => brightness = 0

\* C10 witness: the LED was pulsed during playback and has been turned off
C10_Witness ==
    /\ pc = "deinit_left"
    /\ pulses >= 1
    /\ brightness = 0

----------------------------------------------------------------------------
(* C11..C18 *)

\* x limited to 0..255
ClampTo255(x) == IF x < 0 THEN 0 ELSE IF x > 255 THEN 255 ELSE x

\* C11: for every integer loudness sample L the brightness Audio.pulse_led
\* stores is clamp(L * 2, 0, 255); for every integer level given to the
\* brightness setter the duty cycle stays in 0..65535 and the brightness read
\* back is clamp(level, 0, 255).
C11_BrightnessClamped ==
    /\ led_duty \in 0..65535
    /\ brightness \in 0..255
    /\ led_op = "set" => brightness = ClampTo255(led_in)
    /\ led_op = "pulse" => brightness = ClampTo255(led_in * 2)

\* C11 witness: a loudness sample whose double is above 255 was stored as 255
C11_Witness ==
    /\ led_op = "pulse"
    /\ led_in * 2 > 255
    /\ brightness = 255

\* C12: in every poll-loop iteration, if the left or the right pin is low at
\* the button check, Audio.stop() is called in that iteration before any
\* loudness sample: right after the check the latest device call is the stop,
\* and after the re-check it is the stop or the one pulse that followed it.
C12_PressStopsBeforeSample ==
    ((levels.left = FALSE \/ levels.right = FALSE) /\ pc \in {"recheck", "sleep"}) =>
        /\ Len(trace) >= 2
        /\ pc = "recheck" => trace[Len(trace)] = "stop"
        /\ pc = "sleep" =>
              \/ trace[Len(trace)] = "stop"
              \/ trace[Len(trace)] = "pulse" /\ trace[Len(trace) - 1] = "stop"

\* C12 witness: only the right button was pressed, and the stop was called
C12_Witness ==
    /\ pc = "recheck"
    /\ levels.left = TRUE
    /\ levels.right = FALSE
    /\ trace[Len(trace)] = "stop"

\* C13: two reads of one Button's pressed that both return True are at least
\* the debounce window apart, measured from call to call and from return to
\* return, whatever the pin does in between; so no two reads less than the
\* window apart both return True.
C13_DebouncedReads ==
    \A i, j \in DOMAIN reads :
        (i < j /\ reads[i].result /\ reads[j].result) =>
            /\ reads[j].called - reads[i].called >= Debounce
            /\ reads[j].returned - reads[i].returned >= Debounce

\* C13 witness: two reads more than the window apart both returned True
C13_Witness ==
    \E i, j \in DOMAIN reads :
        /\ i < j
        /\ reads[i].result
        /\ reads[j].result
        /\ reads[j].called - reads[i].called > Debounce

\* C14: a failure raised during the main loop never leaves the run stopped
\* with the exception unhandled (it is logged, blinked and followed by a
\* restart).
C14_LoopFailureRestarts ==
    (err # NoError /\ iterations >= 1) => pc # "crashed"

\* C17: on a cold boot App.run selects no track, never calls Audio.play,
\* Audio.stop or Audio.pulse_led and never enters the poll loop; its device
\* calls are the steps of the else branch in order, and it ends in deep sleep
\* with the LED off, both buttons released and both pin alarms armed.
C17_ColdBootSleepsDirectly ==
    wake_alarm = NoAlarm =>
        /\ file = NoFile
        /\ decoder = NoFile
        /\ play_calls = 0
        /\ stop_calls = 0
        /\ pulses = 0
        /\ iterations = 0
        /\ pc \notin {"play", "buttons", "recheck", "sleep", "crashed"}
        /\ Len(trace) <= Len(EndedSteps)
        /\ trace = SubSeq(EndedSteps, 1, Len(trace))
        /\ pc = "asleep" =>
              /\ trace = EndedSteps
              /\ brightness = 0
              /\ ~left_held
              /\ ~right_held
              /\ Cardinality(sleep_alarms) = 2

\* C17 witness: a cold boot that reached deep sleep, on a card that holds a
\* track
C17_Witness ==
    /\ wake_alarm = NoAlarm
    /\ pc = "asleep"
    /\ ls_files("", Mp3Ext) # {}

\* C15: AudioOut.play never ends by raising, with an LED given or with
\* None, and when it has returned the LED is off.
C15_PlaySafeForLed ==
    /\ ao_pc # "raised"
    /\ ao_err = NoError
    /\ ao_pc = "returned" => AoLedIsOff

\* C16: in every variant ls_files(folder, ext) returns exactly the entries of
\* the folder that are regular files and whose path ends with ext (every
\* regular file when ext is empty or not given).
C16_ListsMatchingFiles ==
    ls_pc = "done" =>
        ls_result = { e \in card : /\ e.parent = ls_folder
                                   /\ e.is_file
                                   /\ EndsWith(e.name, ls_ext) }

\* C18: a run in which no device call fails always goes on to deep sleep: it
\* never ends with an exception unless the audio device raised one (OSError
\* from Audio.play, or the loudness read).
C18_RunWithoutDeviceFailureSleeps ==
    pc = "crashed" => err \in {"OSError", "LoudnessError"}

\* Under FairSpec every run ends, in deep sleep or with an exception: the
\* poll loop itself terminates for every pattern of button presses.
RunEnds == <>(pc \in {"asleep", "crashed"})

====
